---------------------------- MODULE Spec2Model ----------------------------
(***************************************************************************)
(* Model of the query understanding and ranking engine of src/app.py:      *)
(* norm, safe_int, detect_intents, detect_colors, detect_brand,            *)
(* conservative_brand_typo_fix (with difflib's SequenceMatcher.ratio),     *)
(* product_haystack and search_products.                                   *)
(*                                                                         *)
(* Python strings are TLA+ strings (TLC evaluates Len, \o and SubSeq on    *)
(* them).  The module is written in ASCII; the four Turkish letters of the *)
(* lexicon that lie outside ASCII are written with one stand-in character  *)
(* each, used for nothing else:                                            *)
(*     dotless i = "1"   c-cedilla = "2"   s-cedilla = "3"   u-umlaut = "4"*)
(* so that every lexicon entry keeps its length and stays distinct from    *)
(* its transliterated variant ("s1rt 2antas1" and "sirt cantasi").         *)
(*                                                                         *)
(* Python values of a product record (a JSON object) are tagged:           *)
(*     Str(s), Num(n), Lst(<<...>>), None                                  *)
(* and a record is a function from the keys it has to such values.         *)
(***************************************************************************)
EXTENDS Integers, Sequences, FiniteSets, TLC

VARIABLES products, q, k, pc, scored, hits, meta, file, writer, before, pending

vars == <<products, q, k, pc, scored, hits, meta, file, writer, before, pending>>

\* products.json and the reindex request that writes it
store == <<file, writer, before, pending>>

-----------------------------------------------------------------------------
(* Python str primitives                                                   *)

\* s[i-1] of Python, as a one-character string
Char(s, i) == SubSeq(s, i, i)

\* s[i-1:] of Python
From(s, i) == SubSeq(s, i, Len(s))

\* `needle in hay` of Python (substring test; the empty needle always occurs)
Contains(hay, needle) ==
    \E i \in 0..(Len(hay) - Len(needle)) : SubSeq(hay, i + 1, i + Len(needle)) = needle

UpperCase == "ABCDEFGHIJKLMNOPQRSTUVWXYZ"
LowerCase == "abcdefghijklmnopqrstuvwxyz"

\* str.lower() on the upper-case letters of the model's alphabet
LowerMap ==
    [c \in {Char(UpperCase, i) : i \in 1..Len(UpperCase)} |->
        Char(LowerCase, CHOOSE i \in 1..Len(UpperCase) : Char(UpperCase, i) = c)]

\* str.lower() on one character
LowerChar(c) == IF c \in DOMAIN LowerMap THEN LowerMap[c] ELSE c

\* the concatenation of pieces[lo..hi]
RECURSIVE Concat(_, _, _)
Concat(pieces, lo, hi) ==
    IF lo > hi THEN ""
    ELSE IF lo = hi THEN pieces[lo]
    ELSE LET mid == (lo + hi) \div 2
         IN  Concat(pieces, lo, mid) \o Concat(pieces, mid + 1, hi)

\* str.lower()
Lower(s) == Concat([i \in 1..Len(s) |-> LowerChar(Char(s, i))], 1, Len(s))

\* the characters \s of re and str.split() treat as whitespace
IsSpace(c) == c \in {" ", "\t", "\n"}

\* re.sub(r"\s+", " ", s): every maximal run of whitespace becomes one space
\* (the run's last character is kept as the space, the others are dropped)
CollapseSpaces(s) ==
    Concat([i \in 1..Len(s) |->
               IF ~IsSpace(Char(s, i)) THEN Char(s, i)
               ELSE IF i < Len(s) /\ IsSpace(Char(s, i + 1)) THEN ""
               ELSE " "], 1, Len(s))

\* the positions of the characters of s that are not whitespace
Solid(s) == {i \in 1..Len(s) : ~IsSpace(Char(s, i))}

\* the least and the greatest element of a non-empty set of integers
Least(S) == CHOOSE i \in S : \A j \in S : i <= j
Greatest(S) == CHOOSE i \in S : \A j \in S : j <= i

\* s cut to the span of the positions solid
Span(s, solid) == IF solid = {} THEN "" ELSE SubSeq(s, Least(solid), Greatest(solid))

\* str.strip(): from the first to the last character that is not whitespace
Strip(s) == Span(s, Solid(s))

\* the n-th smallest element of a set of integers
Nth(S, n) == CHOOSE i \in S : Cardinality({j \in S : j < i}) = n - 1

\* the runs of s that start at the positions starts and end at the positions ends
Runs(s, starts, ends) ==
    [n \in 1..Cardinality(starts) |-> SubSeq(s, Nth(starts, n), Nth(ends, n))]

\* the maximal runs of the positions solid
SolidRuns(s, solid) ==
    Runs(s, {i \in solid : i - 1 \notin solid}, {i \in solid : i + 1 \notin solid})

\* str.split(): the maximal runs of non-whitespace, in order
Split(s) == SolidRuns(s, Solid(s))

\* sep.join(parts)
RECURSIVE Join(_, _)
Join(parts, sep) ==
    IF parts = <<>> THEN ""
    ELSE IF Len(parts) = 1 THEN parts[1]
    ELSE parts[1] \o sep \o Join(Tail(parts), sep)

\* s.replace(old, new) for non-empty old: leftmost, non-overlapping occurrences
RECURSIVE Replace(_, _, _)
Replace(s, old, new) ==
    IF Len(s) < Len(old) THEN s
    ELSE IF SubSeq(s, 1, Len(old)) = old
         THEN new \o Replace(From(s, Len(old) + 1), old, new)
         ELSE Char(s, 1) \o Replace(From(s, 2), old, new)

-----------------------------------------------------------------------------
(* Helpers of app.py                                                       *)

\* norm(s) for a str s
norm(s) == Strip(CollapseSpaces(Lower(s)))

-----------------------------------------------------------------------------
(* difflib.SequenceMatcher(None, a, b).ratio()                             *)
(* isjunk is None and autojunk only acts on sequences of 200 elements or   *)
(* more, so no element of b is junk or popular.  Positions are 1-based and *)
(* ranges inclusive: Python's a[alo:ahi] is a[alo+1..ahi] here.            *)

\* the length of the longest common run starting at a[i] and b[j]
RECURSIVE CommonLen(_, _, _, _, _, _)
CommonLen(a, b, i, j, ahi, bhi) ==
    IF i > ahi \/ j > bhi \/ Char(a, i) # Char(b, j) THEN 0
    ELSE 1 + CommonLen(a, b, i + 1, j + 1, ahi, bhi)

\* every <<size, i, j>>: the common run of length size starts at a[i], b[j]
CommonRuns(a, b, alo, ahi, blo, bhi) ==
    {<<CommonLen(a, b, i, j, ahi, bhi), i, j>> : i \in alo..ahi, j \in blo..bhi}

\* the greatest size among runs, a size in 0..max
BestSize(runs, max) ==
    CHOOSE n \in 0..max : (\E r \in runs : r[1] = n) /\ (\A r \in runs : r[1] <= n)

\* among runs, the one that starts first in a and, of those, first in b
FirstRun(runs) ==
    CHOOSE r \in runs :
        \A o \in runs : r[2] < o[2] \/ (r[2] = o[2] /\ r[3] <= o[3])

\* the <<i, j, size>> of the first run of size best
MatchOfSize(runs, best, alo, blo) ==
    IF best = 0 THEN <<alo, blo, 0>>
    ELSE <<FirstRun({r \in runs : r[1] = best})[2],
           FirstRun({r \in runs : r[1] = best})[3], best>>

LongestAmong(runs, alo, ahi, blo) ==
    MatchOfSize(runs, BestSize(runs, ahi - alo + 1), alo, blo)

\* find_longest_match: <<i, j, size>> with size maximal, then i minimal, then
\* j minimal; <<alo, blo, 0>> when the ranges share no character
find_longest_match(a, b, alo, ahi, blo, bhi) ==
    LongestAmong(CommonRuns(a, b, alo, ahi, blo, bhi), alo, ahi, blo)

\* get_matching_blocks: the total size of the blocks found by taking the
\* longest match m and recursing on the pieces to its left and to its right
RECURSIVE MatchCount(_, _, _, _, _, _)
BlocksAround(a, b, alo, ahi, blo, bhi, m) ==
    IF m[3] = 0 THEN 0
    ELSE m[3]
         + MatchCount(a, b, alo, m[1] - 1, blo, m[2] - 1)
         + MatchCount(a, b, m[1] + m[3], ahi, m[2] + m[3], bhi)

MatchCount(a, b, alo, ahi, blo, bhi) ==
    IF alo > ahi \/ blo > bhi THEN 0
    ELSE BlocksAround(a, b, alo, ahi, blo, bhi,
                      find_longest_match(a, b, alo, ahi, blo, bhi))

\* ratio() = 2.0 * matches / (len(a) + len(b)), kept as the exact fraction
\* num/den; 1.0 when both are empty
ratio(a, b) ==
    IF Len(a) + Len(b) = 0 THEN [num |-> 1, den |-> 1]
    ELSE [num |-> 2 * MatchCount(a, b, 1, Len(a), 1, Len(b)), den |-> Len(a) + Len(b)]

\* r1 > r2 on ratios (two quotients of small integers are equal as floats
\* exactly when they are equal as fractions)
RatioGreater(r1, r2) == r1.num * r2.den > r2.num * r1.den

\* r >= 0.84
RatioAtLeastThreshold(r) == 100 * r.num >= 84 * r.den

-----------------------------------------------------------------------------
(* conservative_brand_typo_fix                                             *)

known == <<"smiggle", "crybaby", "labubu", "skullpanda", "hacipupu", "twinkle",
           "dimoo", "popmart", "pop", "mart">>

\* one pass of the inner loop: (best_k, best_r) after comparing r = ratio(t, kn)
Better(best, kn, r) ==
    IF RatioGreater(r, best.best_r) THEN [best_k |-> kn, best_r |-> r] ELSE best

\* the inner loop over known[n..]: the first entry with the strictly greatest
\* ratio; best_k = "" stands for Python's None (no entry has a ratio above 0.0)
RECURSIVE BestKnown(_, _, _)
BestKnown(t, n, best) ==
    IF n > Len(known) THEN best
    ELSE BestKnown(t, n + 1, Better(best, known[n], ratio(t, known[n])))

\* the token appended to new_tokens for token t, given the loop's outcome b
Replacement(t, b) ==
    IF b.best_k # "" /\ RatioAtLeastThreshold(b.best_r) /\ t # b.best_k
    THEN b.best_k
    ELSE t

FixToken(t) ==
    Replacement(t, BestKnown(t, 1, [best_k |-> "", best_r |-> [num |-> 0, den |-> 1]]))

\* lines 274-280: changed is TRUE exactly when some token was replaced
Rejoin(s, tokens, new_tokens) ==
    IF new_tokens = tokens THEN s
    ELSE Replace(Replace(Join(new_tokens, " "), "pop mart", "pop mart"),
                 "popmart", "pop mart")

\* lines 252-272
FixTokens(s, tokens) ==
    IF Len(tokens) > 4 THEN s
    ELSE Rejoin(s, tokens, [i \in 1..Len(tokens) |-> FixToken(tokens[i])])

\* lines 248-251, given nq = norm(q)
FixNormalized(s, nq) == IF nq = "" THEN s ELSE FixTokens(s, Split(nq))

conservative_brand_typo_fix(s) == FixNormalized(s, norm(s))

-----------------------------------------------------------------------------
(* Category / intent logic                                                 *)

\* CATEGORY_INTENTS, in the dict's insertion order
CATEGORY_INTENTS == <<
    [ik |-> "sirt_okul_cantasi", terms |-> <<"s1rt 2antas1", "sirt cantasi", "okul 2antas1", "okul cantasi", "backpack", "school bag">>],
    [ik |-> "cekcekli", terms |-> <<"2ek2ekli", "cekcekli", "2ek2ek", "cekcek", "trolley", "valizli", "kabin boy">>],
    [ik |-> "beslenme", terms |-> <<"beslenme 2antas1", "beslenme cantasi", "lunch", "lunchbag">>],
    [ik |-> "kalem_kutusu", terms |-> <<"kalem kutusu", "kalemkutusu", "pencil case", "kalemlik">>],
    [ik |-> "kalem", terms |-> <<"kalem", "pencil", "pen">>],
    [ik |-> "silgi", terms |-> <<"silgi", "eraser">>],
    [ik |-> "defter", terms |-> <<"defter", "g4nl4k", "gunluk", "notebook", "diary">>],
    [ik |-> "kirtasiye_set", terms |-> <<"k1rtasiye set", "kirtasiye set", "setleri", "gift pack">>],
    [ik |-> "suluk_termos", terms |-> <<"suluk", "termos", "matara", "bottle", "thermos">>],
    [ik |-> "blind_box", terms |-> <<"blind box", "s4rpriz kutu", "surpriz kutu">>],
    [ik |-> "oyuncak_figur", terms |-> <<"oyuncak", "fig4r", "figur", "koleksiyon", "collectible">>],
    [ik |-> "labubu", terms |-> <<"labubu">>],
    [ik |-> "crybaby", terms |-> <<"crybaby", "cry baby">>],
    [ik |-> "skullpanda", terms |-> <<"skullpanda", "skull panda">>],
    [ik |-> "hacipupu", terms |-> <<"hacipupu">>],
    [ik |-> "twinkle", terms |-> <<"twinkle">>],
    [ik |-> "dimoo", terms |-> <<"dimoo">>],
    [ik |-> "kozmetik", terms |-> <<"kozmetik", "dudak", "parlat1c1", "parlatici", "lip", "gloss">>],
    [ik |-> "anahtarlik", terms |-> <<"anahtarl1k", "anahtarlik", "boyun ask1s1", "boyun askisi", "lanyard">>],
    [ik |-> "cuzdan", terms |-> <<"c4zdan", "cuzdan", "wallet">>],
    [ik |-> "pasaportluk", terms |-> <<"pasaportluk", "passport">>],
    [ik |-> "taki", terms |-> <<"tak1", "taki", "k4pe", "kupe", "bileklik", "kolye", "jewelry", "bracelet", "earring">>]
>>

\* INTENT_TO_CATEGORY_PATH_HINTS
INTENT_TO_CATEGORY_PATH_HINTS == <<
    [ik |-> "sirt_okul_cantasi", hints |-> <<"s1rt & okul 2antas1", "okul-sirt-cantasi", "okul 2antas1", "s1rt 2antas1", "canta">>],
    [ik |-> "cekcekli", hints |-> <<"2ek2ekli 2anta", "cekcekli", "trolley", "2ocuk-2ek2ekli-valiz", "valiz">>],
    [ik |-> "beslenme", hints |-> <<"beslenme 2antas1", "beslenme-cantasi">>],
    [ik |-> "kalem_kutusu", hints |-> <<"kalem kutusu", "kalem-kutusu">>],
    [ik |-> "kalem", hints |-> <<"kalem;", " kalem ", "kalem-">>],
    [ik |-> "silgi", hints |-> <<"silgi">>],
    [ik |-> "defter", hints |-> <<"defter", "g4nl4k">>],
    [ik |-> "kirtasiye_set", hints |-> <<"k1rtasiye setleri", "kirtasiye-setleri">>],
    [ik |-> "suluk_termos", hints |-> <<"suluk & termos", "suluk-termos", "termos", "suluk">>],
    [ik |-> "blind_box", hints |-> <<"blind box", "s4rpriz", "surpriz">>],
    [ik |-> "oyuncak_figur", hints |-> <<"oyuncak fig4rler", "oyuncak ve fig4rler", "koleksiyonluk">>],
    [ik |-> "labubu", hints |-> <<"labubu">>],
    [ik |-> "crybaby", hints |-> <<"crybaby">>],
    [ik |-> "skullpanda", hints |-> <<"skullpanda">>],
    [ik |-> "hacipupu", hints |-> <<"hacipupu">>],
    [ik |-> "twinkle", hints |-> <<"twinkle">>],
    [ik |-> "dimoo", hints |-> <<"dimoo">>],
    [ik |-> "kozmetik", hints |-> <<"kozmetik">>],
    [ik |-> "anahtarlik", hints |-> <<"anahtarl1k", "anahtarlik", "boyun ask1s1", "boyun askisi">>],
    [ik |-> "cuzdan", hints |-> <<"c4zdan", "cuzdan">>],
    [ik |-> "pasaportluk", hints |-> <<"pasaportluk">>],
    [ik |-> "taki", hints |-> <<"tak1", "taki", "k4pe", "kupe", "bileklik">>]
>>

\* COLOR_TERMS, in the dict's insertion order
COLOR_TERMS == <<
    [cname |-> "pembe", terms |-> <<"pembe", "pink">>],
    [cname |-> "siyah", terms |-> <<"siyah", "black">>],
    [cname |-> "mavi", terms |-> <<"mavi", "blue">>],
    [cname |-> "mor", terms |-> <<"mor", "purple">>],
    [cname |-> "k1rm1z1", terms |-> <<"k1rm1z1", "kirmizi", "red">>],
    [cname |-> "ye3il", terms |-> <<"ye3il", "yesil", "green">>],
    [cname |-> "turuncu", terms |-> <<"turuncu", "orange">>],
    [cname |-> "sar1", terms |-> <<"sar1", "sari", "yellow">>],
    [cname |-> "beyaz", terms |-> <<"beyaz", "white">>],
    [cname |-> "gri", terms |-> <<"gri", "gray", "grey">>],
    [cname |-> "2ok renkli", terms |-> <<"2ok renkli", "cok renkli", "multicolor">>]
>>

\* the positions of a sequence of BOOLEANs that hold TRUE, in increasing order
RECURSIVE TrueIdx(_, _)
TrueIdx(flags, n) ==
    IF n > Len(flags) THEN <<>>
    ELSE (IF flags[n] THEN <<n>> ELSE <<>>) \o TrueIdx(flags, n + 1)

\* any(norm(t) in nq for t in terms)
AnyTermIn(terms, nq) == \E i \in 1..Len(terms) : Contains(nq, norm(terms[i]))

\* the rows of a lexicon table one of whose terms occurs in nq, in table order
Fired(table, nq) ==
    TrueIdx([n \in 1..Len(table) |-> AnyTermIn(table[n].terms, nq)], 1)

IntentKeys(idx) == [i \in 1..Len(idx) |-> CATEGORY_INTENTS[idx[i]].ik]

detect_intents(nq) == IntentKeys(Fired(CATEGORY_INTENTS, nq))

ColorNames(idx) == [i \in 1..Len(idx) |-> COLOR_TERMS[idx[i]].cname]

detect_colors(nq) == ColorNames(Fired(COLOR_TERMS, nq))

\* Python's None as the value of meta["brand"]
NoBrand == "<None>"

detect_brand(nq) ==
    IF Contains(nq, "smiggle") THEN "smiggle"
    ELSE IF Contains(nq, "pop mart") \/ Contains(nq, "popmart") THEN "pop mart"
    ELSE NoBrand

-----------------------------------------------------------------------------
(* Python values held by a product record                                  *)

Str(s) == [t |-> "str", v |-> s]
Num(n) == [t |-> "int", v |-> n]
Lst(l) == [t |-> "list", v |-> l]
None   == [t |-> "none"]

\* bool(x)
Truthy(x) ==
    CASE x.t = "none" -> FALSE
      [] x.t = "str"  -> x.v # ""
      [] x.t = "int"  -> x.v # 0
      [] x.t = "list" -> x.v # <<>>

\* x or y
Or(x, y) == IF Truthy(x) THEN x ELSE y

\* p.get(key, default)
get(p, key, default) == IF key \in DOMAIN p THEN p[key] ELSE default

\* norm(x) for a value x that is a str or None: (x or "") is then a str
normv(x) == norm(Or(x, Str("")).v)

\* safe_int(x, default) for an int or None: str(None) is "None", so int() raises
safe_int(x, default) == IF x.t = "int" THEN x.v ELSE default

\* min(a, b)
Min(a, b) == IF a <= b THEN a ELSE b

-----------------------------------------------------------------------------
(* Search                                                                  *)

\* the expressions search_products and product_haystack read a record with
p_brand(p)    == Or(get(p, "brand", Str("")), Str(""))
p_name(p)     == Or(Or(get(p, "name", Str("")), get(p, "title", Str(""))), Str(""))
p_category(p) == Or(get(p, "category_path", Str("")), Str(""))
p_type(p)     == Or(get(p, "product_type", Str("")), Str(""))
p_colors(p)   == Or(get(p, "colors", Lst(<<>>)), Lst(<<>>))
p_link(p)     == Or(Or(get(p, "product_link", Str("")), get(p, "link", Str(""))), Str(""))
p_code(p)     == safe_int(get(p, "code", Num(0)), 0)

\* " ".join(cl) raises TypeError on an element of cl that is not a str
JoinRaises(cl) == \E i \in 1..Len(cl) : cl[i].t # "str"

\* a product_haystack that also raises on a record whose colors are null
RaisesOnNull(p) == get(p, "colors", Lst(<<>>)).t = "none" \/ JoinRaises(p_colors(p).v)

\* whether product_haystack(p) raises (line 418)
HaystackRaises(p) == JoinRaises(p_colors(p).v)

\* " ".join(cl) for a list of str
JoinColors(cl) == Join([i \in 1..Len(cl) |-> cl[i].v], " ")

product_haystack(p) ==
    norm(Join(<<p_brand(p).v,
                p_name(p).v,
                p_category(p).v,
                p_type(p).v,
                JoinColors(p_colors(p).v),
                p_link(p).v>>, " "))

\* the two tests of the BRAND filter on b = norm(p.get("brand", "")): FALSE
\* when the record is skipped by one of the two `continue`s
BrandMatches(brand, b) ==
    /\ ~(brand = "smiggle" /\ ~Contains(b, "smiggle"))
    /\ ~(/\ brand = "pop mart"
         /\ ~Contains(b, "pop") /\ ~Contains(b, "mart") /\ ~Contains(b, "pop mart"))

\* a BRAND filter that lets every record through
KeepsAnyBrand(p, brand) == TRUE

\* BRAND filter
BrandFilter(p, brand) == BrandMatches(brand, normv(get(p, "brand", Str(""))))

\* the row of INTENT_TO_CATEGORY_PATH_HINTS for intent ix (0 when there is none)
HintRow(ix) ==
    IF \E n \in 1..Len(INTENT_TO_CATEGORY_PATH_HINTS) : INTENT_TO_CATEGORY_PATH_HINTS[n].ik = ix
    THEN CHOOSE n \in 1..Len(INTENT_TO_CATEGORY_PATH_HINTS) :
             INTENT_TO_CATEGORY_PATH_HINTS[n].ik = ix
    ELSE 0

\* INTENT_TO_CATEGORY_PATH_HINTS.get(ix, [])
HintsOf(ix) ==
    IF HintRow(ix) = 0 THEN <<>> ELSE INTENT_TO_CATEGORY_PATH_HINTS[HintRow(ix)].hints

\* one pass of the loop over intents: TRUE when it sets ok_any
IntentMatches(ix, hints, cat, link, name) ==
    \/ \E h \in 1..Len(hints) : Contains(cat, norm(hints[h]))
    \/ \E h \in 1..Len(hints) : Contains(link, norm(hints[h]))
    \/ /\ ix = "suluk_termos"
       /\ Contains(name, "termos") \/ Contains(name, "suluk") \/ Contains(name, "matara")
    \/ /\ ix = "kalem_kutusu"
       /\ Contains(name, "kalem kutusu") \/ Contains(name, "kalemkutusu")
    \/ /\ ix = "cekcekli"
       /\ Contains(name, "2ek2ek") \/ Contains(name, "cekcek") \/ Contains(name, "trolley")
    \/ /\ ix \in {"labubu", "crybaby", "skullpanda", "hacipupu", "twinkle", "dimoo"}
       /\ Contains(name, ix) \/ Contains(cat, ix) \/ Contains(link, ix)

\* ok_any after the loop over intents
AnyIntentMatches(intents, cat, link, name) ==
    \E i \in 1..Len(intents) : IntentMatches(intents[i], HintsOf(intents[i]), cat, link, name)

\* an INTENT filter that asks a record to match every detected intent
MatchesEveryIntent(p, intents) ==
    \A i \in 1..Len(intents) :
        IntentMatches(intents[i], HintsOf(intents[i]), norm(p_category(p).v),
                      norm(p_link(p).v), norm(p_name(p).v))

\* INTENT hard filter: ok_any, or no intent detected
IntentFilter(p, intents) ==
    \/ intents = <<>>
    \/ AnyIntentMatches(intents, norm(p_category(p).v), norm(p_link(p).v), norm(p_name(p).v))

\* " ".join([norm(c) for c in cl])
NormColors(cl) == Join([i \in 1..Len(cl) |-> normv(cl[i])], " ")

\* any((c in pcols) or (c in pname) for c in colors)
AnyColorMatches(colors, pcols, pname) ==
    \E i \in 1..Len(colors) : Contains(pcols, colors[i]) \/ Contains(pname, colors[i])

\* a COLOR filter that lets every record through
KeepsAnyColor(p, colors) == TRUE

\* COLOR filter
ColorFilter(p, colors) ==
    \/ colors = <<>>
    \/ AnyColorMatches(colors, NormColors(Or(get(p, "colors", None), Lst(<<>>)).v),
                       norm(p_name(p).v))

\* sum(1 for t in tokens if t in hay)
TokenMatches(tokens, hay) == Cardinality({i \in 1..Len(tokens) : Contains(hay, tokens[i])})

\* the recency boost min(3, code // 200)
RecencyBoost(code) == Min(3, code \div 200)

\* the score of a record that passed the three filters
Score(p, tokens, intents, colors) ==
    TokenMatches(tokens, product_haystack(p))
    + (IF intents # <<>> THEN 5 ELSE 0)
    + (IF colors # <<>> THEN 3 ELSE 0)
    + RecencyBoost(p_code(p))

\* whether the loop body appends record p to scored
Appended(p, tokens, intents, colors, brand) ==
    /\ BrandFilter(p, brand)
    /\ IntentFilter(p, intents)
    /\ ColorFilter(p, colors)
    /\ Score(p, tokens, intents, colors) > 0

\* a sort key that holds the score alone
ScoreLess(x, y) == x[1] < y[1]

\* the key (x[0], x[1]) of the sort, compared as Python compares tuples
KeyLess(x, y) == x[1] < y[1] \/ (x[1] = y[1] /\ x[2] < y[2])

\* sorted with x put after the n first entries
InsertAt(sorted, x, n) ==
    SubSeq(sorted, 1, n) \o <<x>> \o SubSeq(sorted, n + 1, Len(sorted))

\* sorted (descending) with x put after every entry whose key is not less
Insert(sorted, x) ==
    InsertAt(sorted, x, Cardinality({i \in 1..Len(sorted) : ~KeyLess(sorted[i], x)}))

\* list.sort(key=..., reverse=True): stable, so entries with equal keys keep
\* the order in which the loop appended them
RECURSIVE SortDesc(_)
SortDesc(s) ==
    IF s = <<>> THEN <<>>
    ELSE Insert(SortDesc(SubSeq(s, 1, Len(s) - 1)), s[Len(s)])

\* the tuple appended for products[i] = p; the model names p by its position
Entry(p, i, tokens, intents, colors) == <<Score(p, tokens, intents, colors), p_code(p), i>>

\* the entries of the records at the positions idx
EntriesAt(prods, idx, tokens, intents, colors) ==
    [n \in 1..Len(idx) |-> Entry(prods[idx[n]], idx[n], tokens, intents, colors)]

\* the positions of the records that the loop appends
AppendedIdx(prods, tokens, intents, colors, brand) ==
    TrueIdx([i \in 1..Len(prods) |-> Appended(prods[i], tokens, intents, colors, brand)], 1)

\* the list scored after the loop over products, before the sort
ScoredOf(prods, tokens, intents, colors, brand) ==
    EntriesAt(prods, AppendedIdx(prods, tokens, intents, colors, brand),
              tokens, intents, colors)

\* the meta dict as first built (lines 433-439)
MetaOf(original_q, q2) ==
    [query_original |-> original_q, query_fixed |-> q2,
     intent |-> <<>>, colors |-> <<>>, brand |-> NoBrand]

\* lines 444-525 when no record makes product_haystack raise
Detected(prods, meta0, tokens, intents, colors, brand) ==
    [empty |-> FALSE, raised |-> FALSE,
     scored |-> SortDesc(ScoredOf(prods, tokens, intents, colors, brand)),
     meta |-> [meta0 EXCEPT !.intent = intents, !.colors = colors, !.brand = brand]]

\* lines 433-525 without the early return of lines 441-442
RankedUnguarded(prods, meta0, nq) ==
    IF \E i \in 1..Len(prods) : HaystackRaises(prods[i])
    THEN [empty |-> FALSE, raised |-> TRUE, scored |-> <<>>, meta |-> meta0]
    ELSE Detected(prods, meta0, Split(nq), detect_intents(nq), detect_colors(nq),
                  detect_brand(nq))

\* lines 433-525 given nq = norm(q2)
RankedFor(prods, meta0, nq) ==
    IF nq = ""
    THEN [empty |-> TRUE, raised |-> FALSE, scored |-> <<>>, meta |-> meta0]
    ELSE IF \E i \in 1..Len(prods) : HaystackRaises(prods[i])
    THEN [empty |-> FALSE, raised |-> TRUE, scored |-> <<>>, meta |-> meta0]
    ELSE Detected(prods, meta0, Split(nq), detect_intents(nq), detect_colors(nq),
                  detect_brand(nq))

\* everything search_products computes from line 431 up to the sort, given
\* q2 = conservative_brand_typo_fix(original_q): the local list scored after
\* the sort (each entry names its record by its position in products) and
\* meta, or that the call returned at line 442 (empty), or that it raised
Ranked(prods, original_q, q2) == RankedFor(prods, MetaOf(original_q, q2), norm(q2))

\* the query as search_products matches it (lines 430-431)
normalize(s) == norm(conservative_brand_typo_fix(s))

\* record p with the tracking parameter appended to its links
Decorated(p) ==
    [x \in DOMAIN p |->
        IF x \in {"link", "product_link"} /\ p[x].t = "str"
        THEN Str(p[x].v \o "?utm_source=pembegpt")
        ELSE p[x]]

\* hits whose links are decorated before they are returned
DecoratedHits(prods, sorted, limit) ==
    [n \in 1..Min(limit, Len(sorted)) |-> Decorated(prods[sorted[n][3]])]

\* hits = [p for _, _, p in scored[:k]], for k >= 0
HitsOf(prods, sorted, limit) ==
    [n \in 1..Min(limit, Len(sorted)) |-> prods[sorted[n][3]]]

\* the outcome of the call given what Ranked computed
Outcome(prods, r, limit) ==
    [raised |-> r.raised, scored |-> r.scored, meta |-> r.meta,
     hits |-> HitsOf(prods, r.scored, limit)]

\* search_products(products, q, k) for k >= 0: (hits, meta), or that it raised
search_products(prods, query, limit) ==
    Outcome(prods, Ranked(prods, query, conservative_brand_typo_fix(query)), limit)

-----------------------------------------------------------------------------
(* The inputs of the model                                                 *)

\* catalogs hold at most MaxCatalog records, limits k range over 0..MaxK
MaxCatalog == 2
MaxK == 2

\* product records as load_products() hands them over: JSON objects whose text
\* keys hold a str or null, colors a list or null, code an int or null, any
\* key possibly absent
ProdA == [id |-> Str("A"), brand |-> Str("Smiggle"), name |-> Str("Pembe Kalem Kutusu"),
          category_path |-> Str("Kirtasiye > Kalem Kutusu"), colors |-> Lst(<<Str("Pembe")>>),
          product_link |-> Str("https://s.co/a"), code |-> Num(650)]
ProdB == [id |-> Str("B"), brand |-> Str("Smiggle"), name |-> Str("Okul 2antas1"),
          category_path |-> Str("2anta > S1rt & Okul 2antas1"), colors |-> Lst(<<Str("Mavi")>>),
          product_link |-> Str("https://s.co/b"), code |-> Num(610)]
ProdC == [id |-> Str("C"), brand |-> Str("OtherCo"), title |-> Str("Kalem Kutusu Mor"),
          product_type |-> Str("Kalem Kutusu"), colors |-> Lst(<<>>),
          link |-> Str("https://s.co/c"), code |-> Num(200)]
ProdD == [id |-> Str("D"), brand |-> Str("Kmart"), name |-> Str("Labubu Fig4r"),
          category_path |-> Str("Oyuncak Fig4rler"), colors |-> Lst(<<Str("mor"), Str("pembe")>>),
          product_link |-> Str("https://s.co/d"), code |-> Num(150)]
ProdE == [id |-> Str("E"), brand |-> None, name |-> None, title |-> Str("Smiggle Kalem Kutusu"),
          colors |-> None, link |-> Str("https://s.co/kalem-kutusu-e"), code |-> None]
ProdF == [id |-> Str("F"), brand |-> Str("Pop Mart"), name |-> Str("Labubu Blind Box"),
          colors |-> Lst(<<Str("pembe"), None>>), code |-> Num(1000)]

Pool == {ProdA, ProdB, ProdC, ProdD, ProdE, ProdF}

\* the records of the brand/category scenario: brand, category and colors
\* only, the category and the colors in the language of the lexicon
ScenarioA == [brand |-> Str("Smiggle"), category_path |-> Str("Kalem Kutusu"),
              colors |-> Lst(<<Str("pembe")>>)]
ScenarioB == [brand |-> Str("Smiggle"), category_path |-> Str("S1rt 2antas1"),
              colors |-> Lst(<<Str("mavi")>>)]
ScenarioC == [brand |-> Str("OtherCo"), category_path |-> Str("Kalem Kutusu"),
              colors |-> Lst(<<Str("pembe")>>)]

\* the scenario's catalog, in each of its orders
ScenarioCatalogs ==
    {c \in [1..3 -> {ScenarioA, ScenarioB, ScenarioC}] :
        \A i, j \in 1..3 : c[i] = c[j] => i = j}

Catalogs == UNION {[1..n -> Pool] : n \in 0..MaxCatalog} \cup ScenarioCatalogs

Queries == {"", " \t", "zzz", "art", "po", "kutusu", "Smiggle", "pop mart", "popmrt",
            "labubu", "mor", "pembe kalem kutusu", "mor kalem kutusu",
            "smiggle kalem kutusu",
            "smgle kalem kutusu", " Smiggle  Kalem\tKutusu ", "smigle xpopmartyz",
            "smigle a b c d"}

-----------------------------------------------------------------------------
(* The state machine: one call search_products(products, q, k)             *)

NoMeta == MetaOf("", "")

\* products.json as save_products leaves it: the whole JSON text of catalog c
StoredFile(c) == [recs |-> c, whole |-> TRUE]

Init ==
    /\ products \in Catalogs
    /\ pc = "idle"
    /\ q = ""
    /\ k = 0
    /\ scored = <<>>
    /\ hits = <<>>
    /\ meta = NoMeta
    /\ file = StoredFile(products)
    /\ writer = "idle"
    /\ before = products
    /\ pending = products

\* the call returns at line 442: the normalized query is empty
ReturnEmpty ==
    /\ pc = "idle"
    /\ \E query \in Queries, limit \in 0..MaxK :
         \E q2 \in {conservative_brand_typo_fix(query)} :
         \E r \in {Ranked(products, query, q2)} :
             /\ r.empty
             /\ q' = query
             /\ k' = limit
             /\ scored' = <<>>
             /\ hits' = <<>>
             /\ meta' = r.meta
             /\ pc' = "returned"
    /\ UNCHANGED <<products, store>>

\* the call raises TypeError out of product_haystack (line 418)
Raise ==
    /\ pc = "idle"
    /\ \E query \in Queries, limit \in 0..MaxK :
         \E q2 \in {conservative_brand_typo_fix(query)} :
         \E r \in {Ranked(products, query, q2)} :
             /\ r.raised
             /\ q' = query
             /\ k' = limit
             /\ pc' = "raised"
    /\ UNCHANGED <<products, scored, hits, meta, store>>

\* the call returns at line 528
ReturnHits ==
    /\ pc = "idle"
    /\ \E query \in Queries :
         \E q2 \in {conservative_brand_typo_fix(query)} :
         \E r \in {Ranked(products, query, q2)} :
             /\ ~r.empty
             /\ ~r.raised
             /\ \E limit \in 0..MaxK :
                  /\ q' = query
                  /\ k' = limit
                  /\ scored' = r.scored
                  /\ hits' = HitsOf(products, r.scored, limit)
                  /\ meta' = r.meta
                  /\ pc' = "returned"
    /\ UNCHANGED <<products, store>>

Next == ReturnEmpty \/ Raise \/ ReturnHits

Spec == Init /\ [][Next]_vars

-----------------------------------------------------------------------------
(* A chat or debug_search request running beside a reindex request: both   *)
(* endpoints are plain functions, which the server runs on worker threads.  *)
(* The file is the records whose text has reached it (recs) and whether the *)
(* text is complete (whole).  before is the catalog the file held when the  *)
(* latest reindex opened it, pending the catalog that reindex saves.        *)

\* catalogs as fetch_and_index_feed saves them: sorted by code, newest first
StoreCatalogs == {<<ProdA, ProdB>>, <<ProdA>>, <<ProdC>>}

StoreInit ==
    /\ \E c \in StoreCatalogs :
         /\ file = StoredFile(c)
         /\ before = c
         /\ pending = c
    /\ writer = "idle"
    /\ products = <<>>
    /\ pc = "start"
    /\ q = ""
    /\ k = 0
    /\ scored = <<>>
    /\ hits = <<>>
    /\ meta = NoMeta

\* what json.load makes of the file: a text that is not whole does not parse,
\* and load_products answers the exception with []
Loaded(f) == IF f.whole THEN f.recs ELSE <<>>

\* load_products() of the request (lines 555 and 586); the file exists
Load ==
    /\ pc = "start"
    /\ products' = Loaded(file)
    /\ pc' = "idle"
    /\ UNCHANGED <<q, k, scored, hits, meta, store>>

\* search_products(products, q, k) of the request, on the catalog it loaded
Respond ==
    /\ pc = "idle"
    /\ \E query \in Queries :
         \E q2 \in {conservative_brand_typo_fix(query)} :
         \E r \in {Ranked(products, query, q2)} :
         \E limit \in 0..MaxK :
             /\ q' = query
             /\ k' = limit
             /\ scored' = r.scored
             /\ hits' = HitsOf(products, r.scored, limit)
             /\ meta' = IF r.raised THEN meta ELSE r.meta
             /\ pc' = IF r.raised THEN "raised" ELSE "returned"
    /\ UNCHANGED <<products, store>>

\* save_products, line 88: open(STORE_PATH, "w") truncates the file
ReindexOpen ==
    /\ writer = "idle"
    /\ \E c \in StoreCatalogs :
         /\ pending' = c
         /\ before' = file.recs
    /\ file' = [recs |-> <<>>, whole |-> FALSE]
    /\ writer' = "writing"
    /\ UNCHANGED <<products, q, k, pc, scored, hits, meta>>

\* save_products, line 89: json.dump writes the text piece by piece, and a
\* full buffer reaches the file before the rest is written
ReindexWrite ==
    /\ writer = "writing"
    /\ Len(file.recs) < Len(pending)
    /\ file' = [recs |-> SubSeq(pending, 1, Len(file.recs) + 1), whole |-> FALSE]
    /\ UNCHANGED <<products, q, k, pc, scored, hits, meta, writer, before, pending>>

\* save_products, end of the with block: the rest of the text reaches the
\* file and the file is closed
ReindexClose ==
    /\ writer = "writing"
    /\ file' = StoredFile(pending)
    /\ writer' = "idle"
    /\ UNCHANGED <<products, q, k, pc, scored, hits, meta, before, pending>>

StoreNext == Load \/ Respond \/ ReindexOpen \/ ReindexWrite \/ ReindexClose

StoreSpec == StoreInit /\ [][StoreNext]_vars

-----------------------------------------------------------------------------
(* Properties of a finished call.  In a state with pc = "returned", q and  *)
(* k are the arguments, hits and meta the returned pair, and scored the    *)
(* sorted local list.                                                      *)

\* the tokens the call matched against the haystacks
QueryTokens == Split(norm(meta.query_fixed))

\* some token of tokens occurs in hay
AnyTokenIn(tokens, hay) == \E i \in 1..Len(tokens) : Contains(hay, tokens[i])

\* C1, no-signal exclusion: when a non-empty query fires no brand, no intent
\* and no color, every returned product has a query token in its haystack
NoSignalExclusion ==
    (/\ pc = "returned"
     /\ norm(meta.query_fixed) # ""
     /\ meta.brand = NoBrand /\ meta.intent = <<>> /\ meta.colors = <<>>)
    => \A n \in 1..Len(hits) : AnyTokenIn(QueryTokens, product_haystack(hits[n]))

\* C2, brand exclusivity: when meta reports a brand, the normalized brand
\* field of every returned product contains that brand
BrandExclusivity ==
    (pc = "returned" /\ meta.brand # NoBrand)
    => \A n \in 1..Len(hits) :
           Contains(normv(get(hits[n], "brand", Str(""))), meta.brand)

\* the catalog prods with every code set to c
Recoded(prods, c) ==
    [i \in 1..Len(prods) |->
        [x \in DOMAIN prods[i] \cup {"code"} |-> IF x = "code" THEN Num(c) ELSE prods[i][x]]]

\* the codes the catalogs are recoded to
Codes == {-1, 0, 200}

\* the positions in the catalog of the products an outcome returns
ReturnedPositions(out) == {out.scored[n][3] : n \in 1..Len(out.hits)}

\* C3, recency only orders: with a limit that truncates nothing, the call
\* returns the same products as on the catalog that differs only in its codes
RecencyOnlyOrders ==
    (pc = "returned" /\ k >= Len(products))
    => \A c \in Codes :
           {scored[n][3] : n \in 1..Len(hits)}
               = ReturnedPositions(search_products(Recoded(products, c), q, k))

\* C4, color exclusivity: when colors are detected, every returned product has
\* a detected color in its joined normalized colors or in its normalized name
ColorExclusivity ==
    (pc = "returned" /\ meta.colors # <<>>)
    => \A n \in 1..Len(hits) :
           \E i \in 1..Len(meta.colors) :
               \/ Contains(NormColors(Or(get(hits[n], "colors", None), Lst(<<>>)).v),
                           meta.colors[i])
               \/ Contains(norm(p_name(hits[n]).v), meta.colors[i])

\* a query for "mor" returned the one record of two that has the color
ColorFilterActed ==
    /\ pc = "returned" /\ q = "mor" /\ k = MaxK
    /\ meta.colors = <<"mor">>
    /\ products = <<ProdA, ProdC>>
    /\ hits = <<ProdC>>

\* the returned pair equals the hits and the detections of outcome out
SameAnswer(out) ==
    /\ ~out.raised
    /\ hits = out.hits
    /\ meta.brand = out.meta.brand
    /\ meta.intent = out.meta.intent
    /\ meta.colors = out.meta.colors

\* C5, misspelled-brand scenario: "smgle kalem kutusu" is fixed to "smiggle
\* kalem kutusu" and answered as "smiggle kalem kutusu" is
MisspelledBrandScenario ==
    (pc = "returned" /\ q = "smgle kalem kutusu")
    => /\ meta.query_fixed = "smiggle kalem kutusu"
       /\ SameAnswer(search_products(products, "smiggle kalem kutusu", k))

\* every token of tokens shorter than 4 characters is a token of fixed
ShortTokensKept(tokens, fixed) ==
    \A i \in 1..Len(tokens) :
        Len(tokens[i]) < 4 => \E j \in 1..Len(fixed) : fixed[j] = tokens[i]

\* C6, correction length floor: every token of the query shorter than 4
\* characters is a token of the fixed query
CorrectionLengthFloor ==
    pc = "returned" => ShortTokensKept(Split(norm(q)), QueryTokens)

\* C7, idempotence: normalize(normalize(q)) = normalize(q)
NormalizeIdempotent ==
    pc = "returned" => normalize(normalize(q)) = normalize(q)

\* s is empty or holds whitespace only
WhitespaceOnly(s) == \A i \in 1..Len(s) : IsSpace(Char(s, i))

\* C8, empty-query invariant: a call with an empty or whitespace-only query
\* returns, whatever the catalog holds, no product and an empty meta
EmptyQueryInvariant ==
    (pc # "idle" /\ WhitespaceOnly(q))
    => /\ pc = "returned"
       /\ hits = <<>>
       /\ scored = <<>>
       /\ meta.intent = <<>> /\ meta.colors = <<>> /\ meta.brand = NoBrand

\* a whitespace-only query returned on a catalog that holds a record which
\* makes product_haystack raise and a record which scores without any match
EmptyQueryReturned ==
    /\ pc = "returned" /\ q = " \t" /\ k = MaxK
    /\ products = <<ProdF, ProdC>>

\* the entries of scored are those of the records the loop appends
ScoredSurvivors(tokens) ==
    /\ {scored[n][3] : n \in 1..Len(scored)}
           = {i \in 1..Len(products) :
                  Appended(products[i], tokens, meta.intent, meta.colors, meta.brand)}
    /\ \A m, n \in 1..Len(scored) : scored[m][3] = scored[n][3] => m = n
    /\ \A n \in 1..Len(scored) :
           /\ scored[n][1] = Score(products[scored[n][3]], tokens, meta.intent, meta.colors)
           /\ scored[n][2] = p_code(products[scored[n][3]])

\* C9, ranking and limit: the returned list is the first min(k, n) of the n
\* surviving products in descending order of score, ties in descending order
\* of code
RankingAndLimit ==
    pc = "returned"
    => /\ norm(meta.query_fixed) # "" => ScoredSurvivors(QueryTokens)
       /\ \A m, n \in 1..Len(scored) :
              m < n => \/ scored[m][1] > scored[n][1]
                       \/ scored[m][1] = scored[n][1] /\ scored[m][2] >= scored[n][2]
       /\ Len(hits) = Min(k, Len(scored))
       /\ Len(hits) <= k
       /\ \A n \in 1..Len(hits) : hits[n] = products[scored[n][3]]

\* two records with equal scores were put in the order of their codes, against
\* their order in the catalog, and the limit cut the second off
TieBrokenAndCut ==
    /\ pc = "returned" /\ k = 1
    /\ Len(scored) = 2 /\ Len(hits) = 1
    /\ scored[1][1] = scored[2][1]
    /\ scored[1][2] > scored[2][2]
    /\ scored[1][3] = 2

\* the keys search_products reads
FieldKeys == {"brand", "name", "title", "category_path", "product_type", "colors",
              "product_link", "link", "code"}

\* the empty value of a key
EmptyValue(x) ==
    IF x = "colors" THEN Lst(<<>>) ELSE IF x = "code" THEN Num(0) ELSE Str("")

\* a record whose fields are of the expected types, absent or null
MissingOnly(p) ==
    \A x \in DOMAIN p \cap FieldKeys :
        \/ p[x].t = "none"
        \/ x = "colors" /\ p[x].t = "list" /\ \A i \in 1..Len(p[x].v) : p[x].v[i].t = "str"
        \/ x = "code" /\ p[x].t = "int"
        \/ x \notin {"colors", "code"} /\ p[x].t = "str"

\* record p with every absent or null field set to its empty value
Filled(p) ==
    [x \in DOMAIN p \cup FieldKeys |->
        IF x \in DOMAIN p /\ p[x].t # "none" THEN p[x] ELSE EmptyValue(x)]

FilledCatalog(prods) == [i \in 1..Len(prods) |-> Filled(prods[i])]

\* the call ranked the records as outcome out does
SameRanking(out) ==
    /\ ~out.raised
    /\ scored = out.scored
    /\ meta = out.meta
    /\ Len(hits) = Len(out.hits)

\* C10, malformed records: on a catalog whose records only lack fields (key
\* absent or value null) the call returns, and it scores and ranks every
\* record as it does with each missing field set to "", [] or 0
MissingFieldsAreEmpty ==
    (pc # "idle" /\ \A i \in 1..Len(products) : MissingOnly(products[i]))
    => /\ pc = "returned"
       /\ SameRanking(search_products(FilledCatalog(products), q, k))
       /\ \A n \in 1..Len(hits) : hits[n] = products[scored[n][3]]

\* a record with null brand, name, colors and code and no category was
\* returned together with the record that follows it in the catalog
MissingFieldsReturned ==
    /\ pc = "returned" /\ q = "kutusu"
    /\ products = <<ProdE, ProdC>>
    /\ hits = <<ProdC, ProdE>>

SnapshotConsistency ==
    [][(pc = "start" /\ pc' = "idle") => products' \in {before, pending}]_vars

\* the name-based rule of intent ix holds of the normalized name
NameRule(ix, name) ==
    \/ ix = "suluk_termos"
       /\ (Contains(name, "termos") \/ Contains(name, "suluk") \/ Contains(name, "matara"))
    \/ ix = "kalem_kutusu"
       /\ (Contains(name, "kalem kutusu") \/ Contains(name, "kalemkutusu"))
    \/ ix = "cekcekli"
       /\ (Contains(name, "2ek2ek") \/ Contains(name, "cekcek") \/ Contains(name, "trolley"))
    \/ ix \in {"labubu", "crybaby", "skullpanda", "hacipupu", "twinkle", "dimoo"}
       /\ Contains(name, ix)

\* record p satisfies intent ix: a hint of ix occurs in its category path or
\* in its link, or the name-based rule of ix holds of its name
Satisfies(p, ix) ==
    \/ \E h \in 1..Len(HintsOf(ix)) :
           \/ Contains(norm(p_category(p).v), norm(HintsOf(ix)[h]))
           \/ Contains(norm(p_link(p).v), norm(HintsOf(ix)[h]))
    \/ NameRule(ix, norm(p_name(p).v))

SatisfiesSome(p, intents) == \E i \in 1..Len(intents) : Satisfies(p, intents[i])

\* C13, the category filter is an OR across intents: when intents are
\* detected, every returned record satisfies at least one of them, and a
\* record that satisfies one of them, passes the two other filters and has a
\* positive score is among the survivors
CategoryFilterIsOr ==
    (pc = "returned" /\ meta.intent # <<>>)
    => /\ \A n \in 1..Len(hits) : SatisfiesSome(hits[n], meta.intent)
       /\ \A n \in 1..Len(scored) : SatisfiesSome(products[scored[n][3]], meta.intent)
       /\ \A i \in 1..Len(products) :
              (/\ SatisfiesSome(products[i], meta.intent)
               /\ BrandFilter(products[i], meta.brand)
               /\ ColorFilter(products[i], meta.colors)
               /\ Score(products[i], QueryTokens, meta.intent, meta.colors) > 0)
              => \E n \in 1..Len(scored) : scored[n][3] = i

\* two intents were detected; the record returned satisfies the first and not
\* the second, and a record that holds a query token and satisfies neither
\* was left out
OneIntentSufficed ==
    /\ pc = "returned" /\ k = MaxK
    /\ Len(meta.intent) = 2
    /\ Len(hits) = 1
    /\ Satisfies(hits[1], meta.intent[1]) /\ ~Satisfies(hits[1], meta.intent[2])
    /\ \E i \in 1..Len(products) :
           /\ ~SatisfiesSome(products[i], meta.intent)
           /\ BrandFilter(products[i], meta.brand)
           /\ AnyTokenIn(QueryTokens, product_haystack(products[i]))

\* the parts of the score of record p other than a brand bonus: token
\* overlap, intent bonus, color bonus and recency bonus
OtherComponents(p) ==
    TokenMatches(QueryTokens, product_haystack(p))
    + (IF meta.intent # <<>> THEN 5 ELSE 0)
    + (IF meta.colors # <<>> THEN 3 ELSE 0)
    + RecencyBoost(p_code(p))

\* C14, score composition with brand bonus: the recency bonus never exceeds 3
\* and does not decrease with the code, and when a brand is detected the score
\* of every surviving record exceeds the sum of its other components
BrandBonusInScore ==
    pc = "returned"
    => /\ \A i, j \in 1..Len(products) :
              /\ RecencyBoost(p_code(products[i])) <= 3
              /\ p_code(products[i]) <= p_code(products[j])
                     => RecencyBoost(p_code(products[i])) <= RecencyBoost(p_code(products[j]))
       /\ meta.brand # NoBrand
              => \A n \in 1..Len(scored) :
                     scored[n][1] > OtherComponents(products[scored[n][3]])

\* the elements of result are the records of catalog at pairwise distinct
\* positions
SubSelection(result, catalog) ==
    \E pos \in [1..Len(result) -> 1..Len(catalog)] :
        /\ \A m, n \in 1..Len(result) : pos[m] = pos[n] => m = n
        /\ \A n \in 1..Len(result) : result[n] = catalog[pos[n]]

\* C15, results are an unmodified sub-selection: a call that returns leaves
\* the catalog as it was, and the records it returns are records of the
\* catalog, each as it was before the call and none of them twice
ResultIsSubSelection ==
    [][(pc = "idle" /\ pc' = "returned")
           => /\ products' = products
              /\ SubSelection(hits', products)]_vars

\* both records of a catalog were returned, in the other order
BothReturnedReordered ==
    /\ pc = "returned" /\ q = "Smiggle" /\ k = MaxK
    /\ products = <<ProdB, ProdA>>
    /\ hits = <<ProdA, ProdB>>

=============================================================================
